---- MODULE Spec2Model ----
(***************************************************************************)
(* Job cache reconciliation and batched enrichment of jobOpeningNotify.    *)
(*                                                                         *)
(* The store (JobList.items) is a sequence of JobItem records.  A scrape   *)
(* run (scripts/scrape_all.py) reconciles one company per step and saves   *)
(* the store at the end; an enrichment run (core/job_matcher.py driven by  *)
(* scripts/analyze_matches.py, and the older job_analyzer_integrated.py)   *)
(* scores the unanalyzed postings batch by batch.                          *)
(***************************************************************************)
EXTENDS Integers, Sequences, FiniteSets, TLC

(***************************************************************************)
(* Bounds of the model.                                                    *)
(***************************************************************************)
MaxInit == 3          \* postings in the cache file a single reconcile starts from
MaxInitRun == 1       \* postings in the cache file a several-company run starts from
MaxScrape == 2        \* postings one scrape of a careers page yields
MaxCompanies == 2     \* length of the --companies argument of a scrape run
MaxDetailJobs == 1    \* largest --max-detail-jobs argument
MaxStore == 3         \* postings in the cache file an enrichment run starts from
MaxBatchSize == 2     \* largest --batch-size argument
MaxJobsArg == 2       \* largest --max-jobs argument
MaxRanked == 3        \* postings in the cache file recommendations are made from
MaxTopN == 2
MaxFile == 2          \* largest top_n argument

(***************************************************************************)
(* Value domains.                                                          *)
(***************************************************************************)
None == "None"                         \* Python's None for string fields
Links == {"l1", "l2"}                  \* links a careers page lists
CacheLinks == Links \cup {"l3"}        \* links a cache file holds
Titles == {"t1", "t2"}
Scrapers == {"openai", "anthropic"}    \* keys of the scrapers table
RawCompanies == {"openai", "OpenAI", "anthropic"}
Descriptions == {None, "", "d1"}
DetailOutcomes == {None, "d1"}

\* str.lower() on the company names of the model
Lower(s) == IF s = "OpenAI" THEN "openai" ELSE s

\* Python truthiness of an optional string
Truthy(s) == s # None /\ s # ""

(***************************************************************************)
(* Match analyses.  `kind` tells which keys the dict has: "detailed" has   *)
(* role_compatibility and experience_level_match, "legacy" has not,        *)
(* "malformed" stands for a response element without overall_fit.          *)
(***************************************************************************)
NoAnalysis == [kind |-> "None", overall_fit |-> 0, skills_match |-> 0,
               interest_alignment |-> 0, role_compatibility |-> 0,
               experience_level_match |-> 0, one_line_summary |-> ""]

\* JobMatcher._get_fallback_analysis
FallbackAnalysis == [kind |-> "detailed", overall_fit |-> 0, skills_match |-> 0,
                     interest_alignment |-> 0, role_compatibility |-> 0,
                     experience_level_match |-> 0,
                     one_line_summary |-> "Analysis failed - API error"]

\* well-formed elements a scoring response can hold
GenuineHigh == [kind |-> "detailed", overall_fit |-> 80, skills_match |-> 80,
                interest_alignment |-> 70, role_compatibility |-> 70,
                experience_level_match |-> 60, one_line_summary |-> "fit"]
GenuineZero == [kind |-> "detailed", overall_fit |-> 0, skills_match |-> 0,
                interest_alignment |-> 0, role_compatibility |-> 0,
                experience_level_match |-> 0, one_line_summary |-> "mismatch"]
\* an element that parses as JSON but has no overall_fit key
MalformedElement == [kind |-> "malformed", overall_fit |-> 0, skills_match |-> 0,
                     interest_alignment |-> 0, role_compatibility |-> 0,
                     experience_level_match |-> 0, one_line_summary |-> ""]

\* the keys of the dict _get_fallback_analysis builds
FallbackKeys == {"experience_level_match", "role_compatibility", "skills_match",
                 "interest_alignment", "overall_fit", "experience_gap",
                 "key_strengths", "major_concerns", "excitement_factor",
                 "one_line_summary", "would_interview", "analysis_date"}

\* the keys of an analysis dict: a fallback has those of _get_fallback_analysis,
\* an element of a response those the prompt asks for
KeysOf(analysis) ==
    IF analysis.kind = "detailed"
    THEN IF analysis.one_line_summary = "Analysis failed - API error"
         THEN FallbackKeys
         ELSE FallbackKeys \cup {"job_number"}
    ELSE IF analysis.kind = "legacy"
    THEN {"job_number", "skills_match", "experience_match", "interest_alignment",
          "overall_fit", "key_strengths", "potential_gaps", "excitement_factor",
          "one_line_summary", "analysis_date"}
    ELSE {}

\* the five sub-scores of an analysis
SubScores(analysis) ==
    <<analysis.experience_level_match, analysis.role_compatibility,
      analysis.skills_match, analysis.interest_alignment, analysis.overall_fit>>

(***************************************************************************)
(* JobItem                                                                 *)
(***************************************************************************)
\* JobItem.__init__: company lower-cased, date defaults to now (0 = absent)
JobItem(title, link, company, date, description, match_analysis, now) ==
    [title |-> title, link |-> link, company |-> Lower(company),
     date |-> IF date = 0 THEN now ELSE date,
     description |-> description, match_analysis |-> match_analysis]

\* the links of a sequence of postings
LinksOf(jobs) == {jobs[i].link : i \in 1..Len(jobs)}

RECURSIVE SelectSeq2(_, _, _)
\* [x for x in s if Test(x)], Test given as a set of accepted indices
SelectSeq2(s, keep, i) ==
    IF i > Len(s) THEN <<>>
    ELSE (IF i \in keep THEN <<s[i]>> ELSE <<>>) \o SelectSeq2(s, keep, i + 1)

(***************************************************************************)
(* JobList.add_jobs                                                        *)
(***************************************************************************)
\* existing_by_link = {job.link: job for job in self.items}: last one wins
ExistingIndex(items, link) ==
    LET idx == {i \in 1..Len(items) : items[i].link = link}
    IN IF idx = {} THEN 0 ELSE CHOOSE i \in idx : \A j \in idx : j <= i

\* add_jobs that forgets to carry the stored analysis over
AddOneJob_DropsAnalysis(acc, existing, new_job) ==
    LET e == ExistingIndex(existing, new_job.link)
    IN IF e # 0
       THEN [items |-> [i \in 1..Len(acc.items) |->
                           IF acc.items[i].link # new_job.link
                           THEN acc.items[i] ELSE new_job],
             newly_added |-> acc.newly_added,
             updated |-> Append(acc.updated, new_job)]
       ELSE [items |-> Append(acc.items, new_job),
             newly_added |-> Append(acc.newly_added, new_job),
             updated |-> acc.updated]

\* add_jobs that never finds the stored posting
AddOneJob_AlwaysNew(acc, existing, new_job) ==
    [items |-> Append(acc.items, new_job),
     newly_added |-> Append(acc.newly_added, new_job),
     updated |-> acc.updated]

\* add_jobs that keeps the stored date on a merge
AddOneJob_KeepsDate(acc, existing, new_job) ==
    LET e == ExistingIndex(existing, new_job.link)
    IN IF e # 0
       THEN LET merged == [new_job EXCEPT !.match_analysis = existing[e].match_analysis,
                                          !.date = existing[e].date]
            IN [items |-> [i \in 1..Len(acc.items) |->
                              IF acc.items[i].link # merged.link
                              THEN acc.items[i] ELSE merged],
                newly_added |-> acc.newly_added,
                updated |-> Append(acc.updated, merged)]
       ELSE [items |-> Append(acc.items, new_job),
             newly_added |-> Append(acc.newly_added, new_job),
             updated |-> acc.updated]

\* add_jobs that reports an updated posting as newly added as well
AddOneJob_CountsUpdateAsNew(acc, existing, new_job) ==
    LET e == ExistingIndex(existing, new_job.link)
    IN IF e # 0
       THEN LET merged == [new_job EXCEPT !.match_analysis = existing[e].match_analysis]
            IN [items |-> [i \in 1..Len(acc.items) |->
                              IF acc.items[i].link # merged.link
                              THEN acc.items[i] ELSE merged],
                newly_added |-> Append(acc.newly_added, merged),
                updated |-> Append(acc.updated, merged)]
       ELSE [items |-> Append(acc.items, new_job),
             newly_added |-> Append(acc.newly_added, new_job),
             updated |-> acc.updated]

\* add_jobs that takes the stored entry out and appends the merged one
AddOneJob_MovesToEnd(acc, existing, new_job) ==
    LET e == ExistingIndex(existing, new_job.link)
    IN IF e # 0
       THEN LET merged == [new_job EXCEPT !.match_analysis = existing[e].match_analysis]
            IN [items |-> Append(SelectSeq2(acc.items,
                                     {i \in 1..Len(acc.items) :
                                         acc.items[i].link # merged.link}, 1),
                                 merged),
                newly_added |-> acc.newly_added,
                updated |-> Append(acc.updated, merged)]
       ELSE [items |-> Append(acc.items, new_job),
             newly_added |-> Append(acc.newly_added, new_job),
             updated |-> acc.updated]

\* one iteration of the loop over new_jobs
AddOneJob(acc, existing, new_job) ==
    LET e == ExistingIndex(existing, new_job.link)
    IN IF e # 0
       THEN LET merged == [new_job EXCEPT !.match_analysis = existing[e].match_analysis]
            IN [items |-> [i \in 1..Len(acc.items) |->
                              IF acc.items[i].link # merged.link
                              THEN acc.items[i] ELSE merged],
                newly_added |-> acc.newly_added,
                updated |-> Append(acc.updated, merged)]
       ELSE [items |-> Append(acc.items, new_job),
             newly_added |-> Append(acc.newly_added, new_job),
             updated |-> acc.updated]

RECURSIVE AddLoop(_, _, _, _)
AddLoop(acc, existing, new_jobs, i) ==
    IF i > Len(new_jobs) THEN acc
    ELSE AddLoop(AddOneJob(acc, existing, new_jobs[i]), existing, new_jobs, i + 1)

AddJobs(items, new_jobs) ==
    AddLoop([items |-> items, newly_added |-> <<>>, updated |-> <<>>],
            items, new_jobs, 1)

(***************************************************************************)
(* JobList.remove_jobs_not_in_list                                         *)
(***************************************************************************)
\* removal that ignores the company argument
KeepsJob_Unscoped(job, current_links, company) == job.link \in current_links

\* the test that keeps a job in remaining_jobs
KeepsJob(job, current_links, company) ==
    \/ (Truthy(company) /\ Lower(job.company) # Lower(company))
    \/ job.link \in current_links

RemoveJobsNotInList(items, current_jobs, company) ==
    LET current_links == LinksOf(current_jobs)
        kept == {i \in 1..Len(items) : KeepsJob(items[i], current_links, company)}
    IN [items |-> SelectSeq2(items, kept, 1),
        removed |-> SelectSeq2(items, (1..Len(items)) \ kept, 1)]

(***************************************************************************)
(* Scrapers                                                                *)
(***************************************************************************)
\* BaseScraper.validate_job
ValidateJob(job, company_name) ==
    Truthy(job.title) /\ Truthy(job.link) /\ job.company = company_name

\* scrape_job_listings: one JobItem per listed (title, link), no description,
\* no analysis, dated now; log_scraping_result keeps the valid ones
ScrapeJobListings(company_name, listing, now) ==
    LET jobs == [i \in 1..Len(listing) |->
                    JobItem(listing[i].title, listing[i].link, company_name,
                            0, None, NoAnalysis, now)]
        valid == {i \in 1..Len(jobs) : ValidateJob(jobs[i], company_name)}
    IN SelectSeq2(jobs, valid, 1)

\* what a careers page can list
Listings ==
    UNION {[1..n -> [title : Titles, link : Links]] : n \in 0..MaxScrape}

\* detail fetching that forgets the company test
DetailCandidates_AnyCompany(items, company_name) ==
    LET need == {i \in 1..Len(items) : ~Truthy(items[i].description)}
    IN {i \in need : \A j \in need : items[j].link = items[i].link => i <= j}

\* jobs_to_detail before the limit: the first object per link among the
\* company's postings without description (list(set(...)) keeps one per link;
\* the newly added postings are among them, a scraper builds them with the
\* company's name and without description)
DetailCandidates(items, company_name) ==
    LET need == {i \in 1..Len(items) :
                    items[i].company = company_name /\ ~Truthy(items[i].description)}
    IN {i \in need : \A j \in need : items[j].link = items[i].link => i <= j}

\* scrape_job_details on the fetched postings: description := outcome
ApplyDetails(items, outcome) ==
    [i \in 1..Len(items) |->
        IF i \in DOMAIN outcome
        THEN [items[i] EXCEPT !.description = outcome[i]]
        ELSE items[i]]

(***************************************************************************)
(* Enrichment: selection, one scoring call, applying its results           *)
(***************************************************************************)
RECURSIVE IndexSeq(_, _, _)
\* the indices 'from'..n that lie in keep, in increasing order
IndexSeq(keep, from, n) ==
    IF from > n THEN <<>>
    ELSE (IF from \in keep THEN <<from>> ELSE <<>>) \o IndexSeq(keep, from + 1, n)

\* selection that forgets the analysis test
IsUnanalyzed_AnyAnalysis(job) == Truthy(job.description)

\* selection that takes a posting with a fallback analysis up again
IsUnanalyzed_RetriesFailed(job) ==
    /\ job.match_analysis \in {NoAnalysis, FallbackAnalysis}
    /\ Truthy(job.description)

\* the test of get_unanalyzed_jobs / find_unanalyzed_jobs
IsUnanalyzed(job) == job.match_analysis = NoAnalysis /\ Truthy(job.description)

\* JobList.get_unanalyzed_jobs, as positions in items
GetUnanalyzedJobs(items) ==
    IndexSeq({i \in 1..Len(items) : IsUnanalyzed(items[i])}, 1, Len(items))

\* if max_jobs: unanalyzed_jobs = unanalyzed_jobs[:max_jobs]
\* (max_jobs is <<>> for None, <<m>> for the integer m)
LimitJobs(unanalyzed_jobs, max_jobs) ==
    IF max_jobs # <<>> /\ max_jobs[1] # 0
    THEN SubSeq(unanalyzed_jobs, 1,
                IF max_jobs[1] < Len(unanalyzed_jobs) THEN max_jobs[1]
                ELSE Len(unanalyzed_jobs))
    ELSE unanalyzed_jobs

\* total_batches = (len(unanalyzed_jobs) + batch_size - 1) // batch_size
TotalBatches(n, batch_size) == (n + batch_size - 1) \div batch_size

Min(a, b) == IF a < b THEN a ELSE b

\* batches that overlap by starting one posting early
BatchJobs_Overlapping(unanalyzed_jobs, batch_idx, batch_size) ==
    SubSeq(unanalyzed_jobs, IF batch_idx > 0 THEN batch_idx ELSE 1,
           Min(batch_idx + batch_size, Len(unanalyzed_jobs)))

\* batch_jobs = unanalyzed_jobs[batch_idx:batch_idx + batch_size]
BatchJobs(unanalyzed_jobs, batch_idx, batch_size) ==
    SubSeq(unanalyzed_jobs, batch_idx + 1,
           Min(batch_idx + batch_size, Len(unanalyzed_jobs)))

\* a pacing sleep after every batch
SleepsAfterBatch_Always(batch_num, total_batches) == TRUE

\* if batch_num < total_batches: time.sleep(rate_limit)
SleepsAfterBatch(batch_num, total_batches) == batch_num < total_batches

\* truncation without the padding loop
PadOrTruncate_NoPadding(analyses, n) ==
    [i \in 1..(IF n < Len(analyses) THEN n ELSE Len(analyses)) |-> analyses[i]]

\* the pad-or-truncate of a parsed array to the batch length
PadOrTruncate(analyses, n) ==
    [i \in 1..n |-> IF i <= Len(analyses) THEN analyses[i] ELSE FallbackAnalysis]

\* analyze_job_batch whose except clauses return nothing
AnalyzeJobBatch_NoFallbackOnError(n, response) ==
    IF response.kind = "array"
    THEN PadOrTruncate(response.analyses, n)
    ELSE <<>>

\* JobMatcher.analyze_job_batch for a batch of n postings: the call raises,
\* the text has no [...] (ValueError), json.loads fails, or an array is parsed
AnalyzeJobBatch(n, response) ==
    IF response.kind = "array"
    THEN PadOrTruncate(response.analyses, n)
    ELSE [i \in 1..n |-> FallbackAnalysis]

\* reading analysis['overall_fit'] raises on such an element
RaisesOnRead(analysis) == analysis.kind = "malformed"

RECURSIVE ApplyAnalyses_SkipsFallback(_, _, _, _, _)
\* an apply loop that leaves a posting alone when its result is a fallback
ApplyAnalyses_SkipsFallback(items, batch_jobs, batch_analyses, count, k) ==
    IF k > Len(batch_jobs) \/ k > Len(batch_analyses)
    THEN [items |-> items, jobs_analyzed |-> count, raised |-> FALSE]
    ELSE IF batch_analyses[k] = FallbackAnalysis
    THEN ApplyAnalyses_SkipsFallback(items, batch_jobs, batch_analyses, count, k + 1)
    ELSE LET assigned == [items EXCEPT ![batch_jobs[k]].match_analysis = batch_analyses[k]]
         IN IF RaisesOnRead(batch_analyses[k])
            THEN [items |-> assigned, jobs_analyzed |-> count + 1, raised |-> TRUE]
            ELSE ApplyAnalyses_SkipsFallback(assigned, batch_jobs, batch_analyses,
                                             count + 1, k + 1)

RECURSIVE ApplyAnalyses(_, _, _, _, _)
\* for job, analysis in zip(batch_jobs, batch_analyses): assign, count, print
ApplyAnalyses(items, batch_jobs, batch_analyses, count, k) ==
    IF k > Len(batch_jobs) \/ k > Len(batch_analyses)
    THEN [items |-> items, jobs_analyzed |-> count, raised |-> FALSE]
    ELSE LET assigned == [items EXCEPT ![batch_jobs[k]].match_analysis = batch_analyses[k]]
         IN IF RaisesOnRead(batch_analyses[k])
            THEN [items |-> assigned, jobs_analyzed |-> count + 1, raised |-> TRUE]
            ELSE ApplyAnalyses(assigned, batch_jobs, batch_analyses, count + 1, k + 1)

\* what the scoring call of a batch can come to
ResponseElements == {GenuineHigh, MalformedElement}

Responses(n) ==
    {[kind |-> k, analyses |-> <<>>] : k \in {"raise", "no_array", "bad_json"}}
    \cup {[kind |-> "array", analyses |-> a] :
            a \in UNION {[1..r -> ResponseElements] : r \in 0..(n + 1)}}

(***************************************************************************)
(* scrape_company (scripts/scrape_all.py) as a function of the store       *)
(***************************************************************************)
NoRet == [newly_added |-> <<>>, updated |-> <<>>, removed |-> <<>>]

\* scrape_company without the early return
Reconcile_NoEarlyReturn(items, company_name, current_jobs) ==
    LET a == AddJobs(items, current_jobs)
        r == RemoveJobsNotInList(a.items, current_jobs, company_name)
    IN [items |-> r.items, mid |-> a.items,
        ret |-> [newly_added |-> a.newly_added, updated |-> a.updated,
                 removed |-> r.removed]]

\* lines 24-41: scrape, early return on nothing found, add_jobs, then
\* remove_jobs_not_in_list scoped to the scraper's company
Reconcile(items, company_name, current_jobs) ==
    IF current_jobs = <<>>
    THEN [items |-> items, mid |-> items, ret |-> NoRet]
    ELSE LET a == AddJobs(items, current_jobs)
             r == RemoveJobsNotInList(a.items, current_jobs, company_name)
         IN [items |-> r.items, mid |-> a.items,
             ret |-> [newly_added |-> a.newly_added, updated |-> a.updated,
                      removed |-> r.removed]]

(***************************************************************************)
(* Recommendation ranking (core/job_matcher.py, scripts/show_recommendations)*)
(***************************************************************************)
\* analyses a cache file can hold besides those above
GenuineMid == [kind |-> "detailed", overall_fit |-> 50, skills_match |-> 80,
               interest_alignment |-> 30, role_compatibility |-> 40,
               experience_level_match |-> 60, one_line_summary |-> "gaps"]
BoundaryRole == [kind |-> "detailed", overall_fit |-> 90, skills_match |-> 70,
                 interest_alignment |-> 80, role_compatibility |-> 60,
                 experience_level_match |-> 70, one_line_summary |-> "fit"]
LowRole == [kind |-> "detailed", overall_fit |-> 90, skills_match |-> 90,
            interest_alignment |-> 90, role_compatibility |-> 30,
            experience_level_match |-> 90, one_line_summary |-> "other role"]
\* an analysis of the older format: no role_compatibility, no
\* experience_level_match
LegacyAnalysis == [kind |-> "legacy", overall_fit |-> 90, skills_match |-> 60,
                   interest_alignment |-> 90, role_compatibility |-> 0,
                   experience_level_match |-> 0, one_line_summary |-> "fit"]

RankTitles == {"Engineering Manager", "Software Engineer"}

\* job.title.lower() on the titles of the model
TitleLower(title) ==
    IF title = "Engineering Manager" THEN "engineering manager"
    ELSE IF title = "Software Engineer" THEN "software engineer"
    ELSE title

ManagementWords == {"manager", "director", "vp", "head of", "chief"}

\* word in title_lower, on the lower-cased titles of the model
WordIn(word, title_lower) ==
    word = "manager" /\ title_lower = "engineering manager"

\* any(word in title_lower for word in [...])
IsManagementTitle(title) ==
    \E word \in ManagementWords : WordIn(word, TitleLower(title))

\* 'role_compatibility' in analysis
HasRoleCompatibility(analysis) == analysis.kind = "detailed"

\* defaults of _filter_realistic_jobs and the threshold of its manager rule
MinOverallFit == 30
MinRoleCompatibility == 40
ManagerRoleCompatibility == 60

\* a filter without the rule on manager titles
PassesFilter_NoManagerRule(job) ==
    LET analysis == job.match_analysis
    IN /\ ~(analysis.overall_fit < MinOverallFit)
       /\ ~(HasRoleCompatibility(analysis)
            /\ analysis.role_compatibility < MinRoleCompatibility)

\* one iteration of _filter_realistic_jobs: TRUE when the job is appended
PassesFilter(job) ==
    LET analysis == job.match_analysis
    IN /\ ~(analysis.overall_fit < MinOverallFit)
       /\ ~(HasRoleCompatibility(analysis)
            /\ analysis.role_compatibility < MinRoleCompatibility)
       /\ ~(/\ IsManagementTitle(job.title)
            /\ HasRoleCompatibility(analysis)
            /\ analysis.role_compatibility < ManagerRoleCompatibility)

\* JobList.get_analyzed_jobs, as positions in items
GetAnalyzedJobs(items) ==
    IndexSeq({i \in 1..Len(items) : items[i].match_analysis # NoAnalysis}, 1, Len(items))

\* _filter_realistic_jobs on positions
FilterRealisticJobs(items, jobs) ==
    SelectSeq2(jobs, {k \in 1..Len(jobs) : PassesFilter(items[jobs[k]])}, 1)

\* balanced_score in tenths (the scores of the model are multiples of 10, on
\* which the float arithmetic of the source is exact)
BalancedScore(analysis) ==
    IF HasRoleCompatibility(analysis)
    THEN analysis.skills_match * 3 + analysis.experience_level_match * 3
         + analysis.role_compatibility * 4
    ELSE (analysis.skills_match + analysis.interest_alignment) * 5

\* balanced_score of MinimalMatcher, in tenths
MinimalBalancedScore(analysis) ==
    (analysis.skills_match + analysis.interest_alignment) * 5

\* a sort that puts the smallest key first
InsertDesc_Ascending(sorted, x, key) ==
    LET p == Cardinality({i \in 1..Len(sorted) : key[sorted[i]] <= key[x]})
    IN SubSeq(sorted, 1, p) \o <<x>> \o SubSeq(sorted, p + 1, Len(sorted))

\* a sort that puts a posting in front of the earlier ones of equal key
InsertDesc_Unstable(sorted, x, key) ==
    LET p == Cardinality({i \in 1..Len(sorted) : key[sorted[i]] > key[x]})
    IN SubSeq(sorted, 1, p) \o <<x>> \o SubSeq(sorted, p + 1, Len(sorted))

\* x put into a list sorted by descending key, behind the entries whose key
\* is not smaller (sorted(..., reverse=True) is stable)
InsertDesc(sorted, x, key) ==
    LET p == Cardinality({i \in 1..Len(sorted) : key[sorted[i]] >= key[x]})
    IN SubSeq(sorted, 1, p) \o <<x>> \o SubSeq(sorted, p + 1, Len(sorted))

RECURSIVE SortedDesc(_, _, _)
\* sorted(jobs[:i], key=..., reverse=True)
SortedDesc(jobs, key, i) ==
    IF i = 0 THEN <<>>
    ELSE InsertDesc(SortedDesc(jobs, key, i - 1), jobs[i], key)

\* by_x[:top_n]
TopN(jobs, top_n) == SubSeq(jobs, 1, Min(top_n, Len(jobs)))

\* return {}
NoRecommendations ==
    [empty |-> TRUE, best_overall_fit |-> <<>>, best_skills_match |-> <<>>,
     best_interest_alignment |-> <<>>, best_balanced_match |-> <<>>]

\* the four sorts and cuts shared by both matchers; balanced holds the
\* balanced_score written into the analysis of every ranked job
RankedViews(items, jobs, balanced, top_n) ==
    LET n == Len(jobs)
        overall == [i \in 1..Len(items) |-> items[i].match_analysis.overall_fit]
        skills == [i \in 1..Len(items) |-> items[i].match_analysis.skills_match]
        interest == [i \in 1..Len(items) |-> items[i].match_analysis.interest_alignment]
    IN [empty |-> FALSE,
        best_overall_fit |-> TopN(SortedDesc(jobs, overall, n), top_n),
        best_skills_match |-> TopN(SortedDesc(jobs, skills, n), top_n),
        best_interest_alignment |-> TopN(SortedDesc(jobs, interest, n), top_n),
        best_balanced_match |-> TopN(SortedDesc(jobs, balanced, n), top_n)]

\* the 'balanced_score' keys after a ranking of jobs: -1 where there is none
BalancedScores(jobs, score) ==
    [i \in DOMAIN score |->
        IF \E k \in 1..Len(jobs) : jobs[k] = i THEN score[i] ELSE -1]

\* JobMatcher.generate_recommendations
GenerateRecommendations(items, top_n) ==
    LET analyzed_jobs == GetAnalyzedJobs(items)
        filtered_jobs == FilterRealisticJobs(items, analyzed_jobs)
        balanced == BalancedScores(filtered_jobs,
                        [i \in 1..Len(items) |-> BalancedScore(items[i].match_analysis)])
    IN IF analyzed_jobs = <<>> \/ filtered_jobs = <<>>
       THEN [views |-> NoRecommendations, balanced_score |-> [i \in 1..Len(items) |-> -1]]
       ELSE [views |-> RankedViews(items, filtered_jobs, balanced, top_n),
             balanced_score |-> balanced]

\* MinimalMatcher.generate_recommendations of show_recommendations.py
MinimalGenerateRecommendations(items, top_n) ==
    LET analyzed_jobs == GetAnalyzedJobs(items)
        balanced == BalancedScores(analyzed_jobs,
                        [i \in 1..Len(items) |->
                            MinimalBalancedScore(items[i].match_analysis)])
    IN IF analyzed_jobs = <<>>
       THEN [views |-> NoRecommendations, balanced_score |-> [i \in 1..Len(items) |-> -1]]
       ELSE [views |-> RankedViews(items, analyzed_jobs, balanced, top_n),
             balanced_score |-> balanced]

(***************************************************************************)
(* JobList.load_cache (core/job_models.py) on a raw cache file             *)
(***************************************************************************)
\* a key the JSON object does not have
Absent == "absent"

\* link texts of the model and the ones that contain a company's domain
LinkTexts == {"https://openai.com/careers/l1", "https://www.anthropic.com/jobs/l2",
              "https://example.org/l3", "https://openai.com/jobs?via=anthropic.com"}
OpenAILinks == {"https://openai.com/careers/l1",
                "https://openai.com/jobs?via=anthropic.com"}
AnthropicLinks == {"https://www.anthropic.com/jobs/l2",
                   "https://openai.com/jobs?via=anthropic.com"}

\* data.get(key, default)
GetOr(value, default) == IF value = Absent THEN default ELSE value

\* the inference that tests the anthropic domain first
InferCompany_AnthropicFirst(link) ==
    IF link \in AnthropicLinks THEN "anthropic"
    ELSE IF link \in OpenAILinks THEN "openai"
    ELSE "unknown"

\* lines 114-119: the company inferred from item_data.get('link', '')
InferCompany(link) ==
    IF link \in OpenAILinks THEN "openai"
    ELSE IF link \in AnthropicLinks THEN "anthropic"
    ELSE "unknown"

\* the body of the loop over data raises: `'openai.com' in None` when the
\* company is to be inferred from a null link, data['title'] or data['link']
\* on a missing key, company.lower() on a null company
RecordRaises(raw) ==
    \/ (raw.company = Absent /\ raw.link = None)
    \/ raw.title = Absent
    \/ raw.link = Absent
    \/ raw.company = None

\* lines 112-121 and JobItem.from_dict for a record that does not raise; a
\* missing and a null match_analysis are both read as None (NoAnalysis), a
\* missing and a null date as absent (0)
LoadRecord(raw, now) ==
    JobItem(raw.title, raw.link,
            IF raw.company = Absent THEN InferCompany(raw.link) ELSE raw.company,
            raw.date, GetOr(raw.description, None), raw.match_analysis, now)

\* the try block, lines 105-124: how it ends and what it returns
LoadBody(f, now) ==
    IF f.kind # "list" \/ \E i \in 1..Len(f.records) : RecordRaises(f.records[i])
    THEN [outcome |-> "raised", items |-> <<>>]
    ELSE [outcome |-> "loaded",
          items |-> [i \in 1..Len(f.records) |-> LoadRecord(f.records[i], now)]]

\* load_cache without its except clause
LoadCache_NoHandler(f, now) ==
    IF f.kind = "missing" THEN [outcome |-> "missing", items |-> <<>>]
    ELSE LoadBody(f, now)

\* JobList.load_cache
LoadCache(f, now) ==
    IF f.kind = "missing" THEN [outcome |-> "missing", items |-> <<>>]
    ELSE LET body == LoadBody(f, now)
         IN IF body.outcome = "raised"
            THEN [outcome |-> "recovered", items |-> <<>>]
            ELSE body

(***************************************************************************)
(* The older scripts: openai.py, job_analyzer_integrated.py and            *)
(* job_monitor_complete.py                                                 *)
(***************************************************************************)
\* JobItem of openai.py: it has no company and no match_analysis, and its
\* to_dict writes neither key (a reader finds no company and no analysis)
LegacyJobItem(title, link, date, description, now) ==
    [title |-> title, link |-> link, company |-> Absent,
     date |-> IF date = 0 THEN now ELSE date,
     description |-> description, match_analysis |-> NoAnalysis]

\* JobList.load_cache of openai.py on a well-formed local file: from_dict
\* reads title, link, team, date and the detail fields, nothing else
LegacyLoadCache(cache, now) ==
    [i \in 1..Len(cache) |->
        LegacyJobItem(cache[i].title, cache[i].link, cache[i].date,
                      cache[i].description, now)]

\* scrape_dynamic: one JobItem per listed container
ScrapeDynamic(listing, now) ==
    [i \in 1..Len(listing) |->
        LegacyJobItem(listing[i].title, listing[i].link, 0, None, now)]

\* the links of new_items of scraped_list.diff(existing_list)
LegacyNewLinks(scraped_list, existing_list) ==
    LinksOf(scraped_list) \ LinksOf(existing_list)

\* lines 457-479 of openai.main: the details go to the first scraped object
\* of each fetched link
LegacyApplyDetails(scraped_list, outcome) ==
    [i \in 1..Len(scraped_list) |->
        IF /\ scraped_list[i].link \in DOMAIN outcome
           /\ \A j \in 1..(i - 1) : scraped_list[j].link # scraped_list[i].link
        THEN [scraped_list[i] EXCEPT !.description = outcome[scraped_list[i].link]]
        ELSE scraped_list[i]]

\* lines 484-491 of openai.main: the cache file after the scrape step
LegacySaved(cache, scraped_list) ==
    IF Len(scraped_list) > 0 THEN scraped_list ELSE cache

\* a constructor that takes any key
MatcherInit_NoCheck(key_available) == "client"

\* JobMatcher.__init__ and IntegratedJobAnalyzer.__init__
MatcherInit(key_available) ==
    IF key_available THEN "client" ELSE "ValueError"

\* reading job.match_analysis of a JobItem of openai.py raises AttributeError:
\* find_unanalyzed_jobs does for a job with a description, the list
\* comprehensions of generate_recommendations and of the workflow for any job
LegacyReadRaises(job_list) == job_list # <<>>

(***************************************************************************)
(* JobList.save_cache                                                      *)
(***************************************************************************)
\* a save that keeps the postings of the file that the saved list lacks
SaveCache_Merging(on_disk, items, ok) ==
    IF ok
    THEN items \o SelectSeq2(on_disk,
                      {i \in 1..Len(on_disk) : on_disk[i].link \notin LinksOf(items)}, 1)
    ELSE on_disk

\* save_cache writes the to_dict of every item of the list over the file;
\* when that raises the error is printed and the file is as it was
SaveCache(on_disk, items, ok) == IF ok THEN items ELSE on_disk

(***************************************************************************)
(* State                                                                   *)
(***************************************************************************)
VARIABLES
    items,        \* JobList.items of the running process
    disk,         \* the cache file
    clock,        \* datetime.now(), in ticks
    todo,         \* companies the scrape run has still to scrape
    op,           \* the last step taken
    pre,          \* items before the last scrape_company call
    mid,          \* items after its add_jobs
    listed,       \* what the careers page listed in the last call
    current,      \* current_jobs of the last scrape_company call
    company,      \* its company_name
    ret,          \* newly_added, updated, removed of the last call
    pc,           \* where the enrichment run stands
    impl,         \* "core": analyze_matches.py, "integrated": job_analyzer_integrated.py
    batch_size,   \* --batch-size
    max_jobs,     \* --max-jobs: <<>> for None, <<m>> for m
    eligible,     \* get_unanalyzed_jobs() at the start of the run
    unanalyzed,   \* unanalyzed_jobs after the max_jobs cut
    batch_idx,    \* batch_idx of the next iteration
    jobs_analyzed,
    calls,        \* the batches submitted to the scoring service so far
    sleeps,       \* pacing sleeps so far
    response,     \* outcome of the last scoring call
    results,      \* what analyze_job_batch returned for it
    log,          \* the steps of the batch loop in the order they were taken
    matcher,      \* the matcher that made the recommendations
    top_n,        \* its top_n argument
    balanced_score,   \* the balanced_score keys of the analyses, by position
    recommendations,  \* what generate_recommendations returned
    file,         \* the cache file as load_cache finds it
    load_outcome, \* how load_cache ended
    credential,   \* --api-key or ANTHROPIC_API_KEY is set
    analyze,      \* --analyze of job_monitor_complete.py
    wf,           \* where the started script stands
    scrapes,      \* requests for a careers page so far
    mem,          \* job_list.items of each of two concurrent runs
    rpc,          \* where each of them stands
    last_saver    \* the run whose save_cache wrote the file last

scrapeVars == <<clock, todo, pre, mid, listed, current, company, ret>>
enrichVars == <<pc, impl, batch_size, max_jobs, eligible, unanalyzed, batch_idx,
                jobs_analyzed, calls, sleeps, response, results, log>>
rankVars == <<matcher, top_n, balanced_score, recommendations>>
fileVars == <<file, load_outcome, credential, analyze, wf, scrapes, mem, rpc, last_saver>>
vars == <<items, disk, op, scrapeVars, enrichVars, rankVars, fileVars>>

NoResponse == [kind |-> "none", analyses |-> <<>>]

\* no enrichment run
EnrichIdle ==
    /\ pc = "idle"
    /\ impl = "core"
    /\ batch_size = 1
    /\ max_jobs = <<>>
    /\ eligible = <<>>
    /\ unanalyzed = <<>>
    /\ batch_idx = 0
    /\ jobs_analyzed = 0
    /\ calls = <<>>
    /\ sleeps = 0
    /\ response = NoResponse
    /\ results = <<>>
    /\ log = <<>>

\* the two runs that can work on one cache file at a time
Runs == {"scrape", "enrich"}

\* no concurrent runs
RunsIdle ==
    /\ mem = [r \in Runs |-> <<>>]
    /\ rpc = [r \in Runs |-> "idle"]
    /\ last_saver = "none"

\* no raw cache file under inspection
FileIdle ==
    /\ file = [kind |-> "none", records |-> <<>>]
    /\ load_outcome = "none"
    /\ credential = FALSE
    /\ analyze = FALSE
    /\ wf = "idle"
    /\ scrapes = 0
    /\ RunsIdle

\* no recommendations made
RankIdle ==
    /\ matcher = "none"
    /\ top_n = 0
    /\ balanced_score = <<>>
    /\ recommendations = NoRecommendations

(***************************************************************************)
(* Cache files a run can start from: postings with pairwise distinct       *)
(* links, stored under date 1.                                             *)
(***************************************************************************)
StoredAnalyses == {NoAnalysis, GenuineHigh}
StoredDescriptions == {None, "d1"}

CacheRecords ==
    {JobItem("t1", l, c, 1, d, m, 1) :
        l \in CacheLinks, c \in RawCompanies, d \in StoredDescriptions, m \in StoredAnalyses}

DistinctLinks(s) == \A i, j \in 1..Len(s) : i # j => s[i].link # s[j].link

Caches(n) ==
    {s \in UNION {[1..k -> CacheRecords] : k \in 0..n} : DistinctLinks(s)}

CompanyArgs(n) == UNION {[1..k -> Scrapers] : k \in 1..n}

\* main of scrape_all.py up to the loop: load_cache, scrapers table
InitScrape(cache, companies) ==
    /\ disk = cache
    /\ items = cache
    /\ clock = 1
    /\ todo = companies
    /\ op = "load"
    /\ pre = cache
    /\ mid = cache
    /\ listed = <<>>
    /\ current = <<>>
    /\ company = None
    /\ ret = NoRet
    /\ EnrichIdle
    /\ RankIdle
    /\ FileIdle

\* the default run (--companies openai), any cache
InitReconcile ==
    \E cache \in Caches(MaxInit) : InitScrape(cache, <<"openai">>)

\* several companies per run
InitRun ==
    \E cache \in Caches(MaxInitRun), companies \in CompanyArgs(MaxCompanies) :
        InitScrape(cache, companies)

(***************************************************************************)
(* One iteration of the loop of scrape_all.main: scrape_company for the    *)
(* next company; after the last company the store is saved.  `fetched` are *)
(* the postings whose details are fetched: none without --fetch-details,   *)
(* at most --max-detail-jobs of the candidates otherwise.                  *)
(***************************************************************************)
ScrapeStep(listing) ==
    /\ todo # <<>>
    /\ LET company_name == Head(todo)
           now == clock + 1
       IN \E current_jobs \in {ScrapeJobListings(company_name, listing, now)} :
          \E r \in {Reconcile(items, company_name, current_jobs)} :
          \E cands \in {IF current_jobs = <<>> THEN {}
                        ELSE DetailCandidates(r.items, company_name)} :
          \E fetched \in {f \in SUBSET cands : Cardinality(f) <= MaxDetailJobs} :
          \E outcome \in [fetched -> DetailOutcomes] :
              /\ items' = ApplyDetails(r.items, outcome)
              /\ pre' = items
              /\ mid' = r.mid
              /\ ret' = r.ret
              /\ listed' = listing
              /\ current' = current_jobs
              /\ company' = company_name
              /\ clock' = now
              /\ todo' = Tail(todo)
              /\ disk' = IF Tail(todo) = <<>> THEN items' ELSE disk
              /\ op' = "scrape"
              /\ UNCHANGED <<enrichVars, rankVars, fileVars>>

\* the scraper found postings: lines 31-73
ScrapeCompany == \E listing \in Listings \ {<<>>} : ScrapeStep(listing)

\* the scraper found nothing: lines 27-29
ScrapeNothing == ScrapeStep(<<>>)

NextScrape == ScrapeCompany \/ ScrapeNothing

SpecReconcile == InitReconcile /\ [][NextScrape]_vars
SpecRun == InitRun /\ [][NextScrape]_vars

(***************************************************************************)
(* Enrichment run                                                          *)
(***************************************************************************)
EnrichLinks == <<"l1", "l2", "l3", "l4">>
EnrichAnalyses == {NoAnalysis, GenuineHigh, FallbackAnalysis}

\* cache files of k postings l1..lk of one company
EnrichCaches ==
    UNION {{[i \in 1..k |->
                JobItem("t1", EnrichLinks[i], "openai", 1, d[i], m[i], 1)] :
               d \in [1..k -> Descriptions], m \in [1..k -> EnrichAnalyses]} :
           k \in 0..MaxStore}

\* main of analyze_matches.py / analyze_and_update_cache up to the selection
InitEnrich ==
    /\ \E cache \in EnrichCaches : disk = cache /\ items = cache
    /\ op = "load"
    /\ clock = 1
    /\ todo = <<>>
    /\ pre = <<>>
    /\ mid = <<>>
    /\ listed = <<>>
    /\ current = <<>>
    /\ company = None
    /\ ret = NoRet
    /\ pc = "start"
    /\ impl \in {"core", "integrated"}
    /\ batch_size \in 1..MaxBatchSize
    /\ max_jobs \in {<<>>} \cup {<<m>> : m \in 0..MaxJobsArg}
    /\ eligible = <<>>
    /\ unanalyzed = <<>>
    /\ batch_idx = 0
    /\ jobs_analyzed = 0
    /\ calls = <<>>
    /\ sleeps = 0
    /\ response = NoResponse
    /\ results = <<>>
    /\ log = <<>>
    /\ RankIdle
    /\ FileIdle

\* analyze_job_list lines 179-205: select, cut, plan, ask
EnrichStart(confirm) ==
    /\ pc = "start"
    /\ eligible' = GetUnanalyzedJobs(items)
    /\ unanalyzed' = LimitJobs(eligible', max_jobs)
    /\ pc' = IF unanalyzed' = <<>> THEN "done"
             ELSE IF confirm # "y" THEN "cancelled" ELSE "loop"
    /\ op' = "start"
    /\ UNCHANGED <<items, disk, scrapeVars, fileVars, impl, batch_size, max_jobs,
                   batch_idx, jobs_analyzed, calls, sleeps, response, results, log,
                   rankVars>>

\* one iteration of the batch loop (lines 208-228); after the last one the
\* run returns and the caller saves (analyze_matches.py lines 102-104)
EnrichBatch(resp) ==
    /\ pc = "loop"
    /\ LET n == Len(unanalyzed)
           batch_jobs == BatchJobs(unanalyzed, batch_idx, batch_size)
           batch_num == (batch_idx \div batch_size) + 1
           total_batches == TotalBatches(n, batch_size)
           batch_analyses == AnalyzeJobBatch(Len(batch_jobs), resp)
           a == ApplyAnalyses(items, batch_jobs, batch_analyses, jobs_analyzed, 1)
           last == batch_idx + batch_size >= n
           sleep == SleepsAfterBatch(batch_num, total_batches)
       IN /\ calls' = Append(calls, batch_jobs)
          /\ response' = resp
          /\ results' = batch_analyses
          /\ items' = a.items
          /\ jobs_analyzed' = a.jobs_analyzed
          /\ IF a.raised
             THEN /\ pc' = "crashed"
                  /\ log' = log \o <<"call", "raise">>
                  /\ UNCHANGED <<disk, sleeps, batch_idx>>
             ELSE /\ disk' = IF impl = "integrated" \/ (last /\ a.jobs_analyzed > 0)
                             THEN a.items ELSE disk
                  /\ sleeps' = IF sleep THEN sleeps + 1 ELSE sleeps
                  /\ log' = log \o <<"call", "apply">>
                                 \o (IF sleep THEN <<"sleep">> ELSE <<>>)
                  /\ batch_idx' = batch_idx + batch_size
                  /\ pc' = IF last THEN "done" ELSE "loop"
    /\ op' = "batch"
    /\ UNCHANGED <<scrapeVars, fileVars, impl, batch_size, max_jobs, eligible,
                   unanalyzed, rankVars>>

\* the scoring service answers a batch of n postings with up to n + 1 elements
EnrichScore ==
    \E resp \in Responses(Len(BatchJobs(unanalyzed, batch_idx, batch_size))) :
        EnrichBatch(resp)

\* the process is terminated between two batches
EnrichAbort ==
    /\ pc = "loop"
    /\ pc' = "aborted"
    /\ op' = "abort"
    /\ UNCHANGED <<items, disk, scrapeVars, fileVars, impl, batch_size, max_jobs,
                   eligible, unanalyzed, batch_idx, jobs_analyzed, calls, sleeps,
                   response, results, log, rankVars>>

NextEnrich == (\E confirm \in {"y", "n"} : EnrichStart(confirm)) \/ EnrichScore \/ EnrichAbort

SpecEnrich == InitEnrich /\ [][NextEnrich]_vars

(***************************************************************************)
(* Recommendations from a cache file                                       *)
(***************************************************************************)
RankAnalyses == {NoAnalysis, FallbackAnalysis, GenuineHigh, GenuineMid, BoundaryRole,
                 LowRole, LegacyAnalysis}

\* cache files of k postings l1..lk of one company, all with a description
RankCaches ==
    UNION {{[i \in 1..k |->
                JobItem(t[i], EnrichLinks[i], "openai", 1, "d1", m[i], 1)] :
               t \in [1..k -> RankTitles], m \in [1..k -> RankAnalyses]} :
           k \in 0..MaxRanked}

\* a loaded cache file and the top_n a caller passes
InitRecommend ==
    /\ \E cache \in RankCaches : disk = cache /\ items = cache
    /\ op = "load"
    /\ clock = 1
    /\ todo = <<>>
    /\ pre = <<>>
    /\ mid = <<>>
    /\ listed = <<>>
    /\ current = <<>>
    /\ company = None
    /\ ret = NoRet
    /\ EnrichIdle
    /\ FileIdle
    /\ matcher = "none"
    /\ top_n \in 0..MaxTopN
    /\ balanced_score = <<>>
    /\ recommendations = NoRecommendations

\* JobMatcher.generate_recommendations(job_list, top_n) on the loaded JobList
\* (the call of analyze_matches.main, line 108)
RecommendCore ==
    /\ op = "load"
    /\ matcher = "none"
    /\ LET g == GenerateRecommendations(items, top_n)
       IN /\ recommendations' = g.views
          /\ balanced_score' = g.balanced_score
    /\ matcher' = "core"
    /\ op' = "recommend"
    /\ UNCHANGED <<items, disk, scrapeVars, fileVars, enrichVars, top_n>>

\* main of show_recommendations.py without --company and --min-score: it
\* returns when nothing is analyzed; when JobMatcher("dummy") raises it ranks
\* with MinimalMatcher; otherwise JobMatcher.generate_recommendations is
\* handed a FilteredJobList, which has no get_analyzed_jobs, and raises
ShowRecommendations(constructor_raises) ==
    /\ op = "load"
    /\ matcher = "none"
    /\ IF GetAnalyzedJobs(items) = <<>>
       THEN /\ op' = "show_nothing"
            /\ UNCHANGED <<matcher, balanced_score, recommendations>>
       ELSE IF constructor_raises
       THEN /\ LET g == MinimalGenerateRecommendations(items, top_n)
               IN /\ recommendations' = g.views
                  /\ balanced_score' = g.balanced_score
            /\ matcher' = "minimal"
            /\ op' = "recommend"
       ELSE /\ matcher' = "core"
            /\ op' = "show_raised"
            /\ UNCHANGED <<balanced_score, recommendations>>
    /\ UNCHANGED <<items, disk, scrapeVars, fileVars, enrichVars, top_n>>

ShowMinimal == ShowRecommendations(TRUE)
ShowCore == ShowRecommendations(FALSE)

NextRecommend == RecommendCore \/ ShowMinimal \/ ShowCore

SpecRecommend == InitRecommend /\ [][NextRecommend]_vars

(***************************************************************************)
(* load_cache on every kind of cache file                                  *)
(***************************************************************************)
\* JSON objects a cache file can hold: any combination of a missing title,
\* a missing or null link and a missing or null company without the optional
\* keys, and complete records as save_cache writes them
RawRecords ==
    [title : {Absent, "t1"}, link : {Absent, None} \cup LinkTexts,
     company : {Absent, None, "OpenAI"}, date : {0}, description : {Absent},
     match_analysis : {NoAnalysis}]
    \cup [title : {"t2"}, link : LinkTexts, company : {"anthropic"}, date : {1},
          description : {"d1"}, match_analysis : {NoAnalysis, GenuineHigh}]

\* no file, a file that is not JSON, JSON that is not a list, a list of objects
CacheFiles ==
    {[kind |-> k, records |-> <<>>] : k \in {"missing", "unparsable", "not_a_list"}}
    \cup {[kind |-> "list", records |-> r] :
             r \in UNION {[1..n -> RawRecords] : n \in 0..MaxFile}}

InitLoad ==
    /\ file \in CacheFiles
    /\ load_outcome = "none"
    /\ credential = FALSE
    /\ analyze = FALSE
    /\ wf = "idle"
    /\ scrapes = 0
    /\ RunsIdle
    /\ items = <<>>
    /\ disk = <<>>
    /\ op = "file"
    /\ clock = 1
    /\ todo = <<>>
    /\ pre = <<>>
    /\ mid = <<>>
    /\ listed = <<>>
    /\ current = <<>>
    /\ company = None
    /\ ret = NoRet
    /\ EnrichIdle
    /\ RankIdle

\* job_list = JobList.load_cache(cache_file)
LoadCacheFile ==
    /\ op = "file"
    /\ \E r \in {LoadCache(file, clock + 1)} :
          /\ items' = r.items
          /\ load_outcome' = r.outcome
    /\ clock' = clock + 1
    /\ op' = "loaded"
    /\ UNCHANGED <<disk, file, credential, analyze, wf, scrapes, mem, rpc, last_saver,
                   todo, pre, mid, listed, current, company, ret, enrichVars,
                   rankVars>>

NextLoad == LoadCacheFile

SpecLoad == InitLoad /\ [][NextLoad]_vars

(***************************************************************************)
(* Starting one of the scripts that enrich, with or without a credential   *)
(***************************************************************************)
\* cache files of k postings l1..lk as job_system's save_cache writes them
WorkflowCaches ==
    UNION {{[i \in 1..k |->
                JobItem("t1", EnrichLinks[i], "openai", 1, d[i], m[i], 1)] :
               d \in [1..k -> StoredDescriptions], m \in [1..k -> StoredAnalyses]} :
           k \in 0..MaxFile}

InitWorkflow ==
    /\ \E cache \in WorkflowCaches : disk = cache /\ pre = cache
    /\ items = <<>>
    /\ op = "shell"
    /\ clock = 1
    /\ todo = <<>>
    /\ mid = <<>>
    /\ listed = <<>>
    /\ current = <<>>
    /\ company = None
    /\ ret = NoRet
    /\ EnrichIdle
    /\ RankIdle
    /\ file = [kind |-> "none", records |-> <<>>]
    /\ load_outcome = "none"
    /\ credential \in BOOLEAN
    /\ analyze \in BOOLEAN
    /\ wf = "start"
    /\ scrapes = 0
    /\ RunsIdle

\* STEP 1 of complete_job_workflow, openai.main: load the cache, scrape,
\* fetch details of up to max_detail_jobs new postings, save scraped_list
WorkflowScrape ==
    /\ wf = "start"
    /\ \E listing \in Listings :
       LET now == clock + 1
           existing_list == LegacyLoadCache(disk, now)
           scraped_list == ScrapeDynamic(listing, now)
           new == LegacyNewLinks(scraped_list, existing_list)
       IN \E fetched \in {f \in SUBSET new : Cardinality(f) <= MaxDetailJobs} :
          \E outcome \in [fetched -> DetailOutcomes] :
              /\ items' = LegacyApplyDetails(scraped_list, outcome)
              /\ disk' = LegacySaved(disk, items')
              /\ listed' = listing
              /\ current' = scraped_list
              /\ clock' = now
    /\ scrapes' = scrapes + 1
    /\ wf' = "scraped"
    /\ op' = "workflow_scrape"
    /\ UNCHANGED <<pre, todo, mid, company, ret, enrichVars, rankVars, file,
                   load_outcome, credential, analyze, mem, rpc, last_saver>>

\* STEP 1 when scrape_dynamic raises: main returns [] (lines 437-439)
WorkflowScrapeFails ==
    /\ wf = "start"
    /\ items' = LegacyLoadCache(disk, clock + 1)
    /\ clock' = clock + 1
    /\ scrapes' = scrapes + 1
    /\ wf' = "scraped"
    /\ op' = "workflow_scrape_failed"
    /\ UNCHANGED <<disk, pre, todo, mid, listed, current, company, ret, enrichVars,
                   rankVars, file, load_outcome, credential, analyze, mem, rpc, last_saver>>

\* lines 33-51 of complete_job_workflow: with --analyze and a key the
\* analyzer is built and analyze_and_update_cache loads the cache
WorkflowAnalyze ==
    /\ wf = "scraped"
    /\ analyze /\ credential
    /\ MatcherInit(credential) = "client"
    /\ items' = LegacyLoadCache(disk, clock)
    /\ wf' = IF LegacyReadRaises(items') THEN "workflow_crashed" ELSE "workflow_done"
    /\ op' = "workflow_analyze"
    /\ UNCHANGED <<disk, scrapeVars, enrichVars, rankVars, file, load_outcome,
                   credential, analyze, scrapes, mem, rpc, last_saver>>

\* lines 57-139: no --analyze or no key; the analysis is skipped and the
\* recommendations are read from the cache
WorkflowSkip ==
    /\ wf = "scraped"
    /\ ~(analyze /\ credential)
    /\ items' = LegacyLoadCache(disk, clock)
    /\ wf' = IF LegacyReadRaises(items') THEN "workflow_crashed" ELSE "workflow_done"
    /\ op' = "workflow_skip"
    /\ UNCHANGED <<disk, scrapeVars, enrichVars, rankVars, file, load_outcome,
                   credential, analyze, scrapes, mem, rpc, last_saver>>

\* main of analyze_matches.py up to line 63: JobMatcher is called with a
\* provider keyword its __init__ does not take, so the construction raises
\* with and without a key and main ends before load_cache
AnalyzeMatchesMain ==
    /\ wf = "start"
    /\ wf' = "matcher_error"
    /\ op' = "analyze_matches"
    /\ UNCHANGED <<items, disk, scrapeVars, enrichVars, rankVars, file,
                   load_outcome, credential, analyze, scrapes, mem, rpc, last_saver>>

\* main of job_analyzer_integrated.py up to the load of the cache: without a
\* key the constructor raises ValueError and main returns
IntegratedMain ==
    /\ wf = "start"
    /\ IF MatcherInit(credential) = "ValueError"
       THEN /\ wf' = "analyzer_error"
            /\ UNCHANGED items
       ELSE /\ wf' = "analyzer_loaded"
            /\ items' = LegacyLoadCache(disk, clock)
    /\ op' = "integrated_main"
    /\ UNCHANGED <<disk, scrapeVars, enrichVars, rankVars, file, load_outcome,
                   credential, analyze, scrapes, mem, rpc, last_saver>>

NextWorkflow ==
    \/ WorkflowScrape
    \/ WorkflowScrapeFails
    \/ WorkflowAnalyze
    \/ WorkflowSkip
    \/ AnalyzeMatchesMain
    \/ IntegratedMain

SpecWorkflow == InitWorkflow /\ [][NextWorkflow]_vars

(***************************************************************************)
(* A scrape run and an enrichment run on the same cache file               *)
(***************************************************************************)
\* cache files of k described postings l1..lk of openai
SharedCaches ==
    UNION {{[i \in 1..k |->
                JobItem("t1", EnrichLinks[i], "openai", 1, "d1", m[i], 1)] :
               m \in [1..k -> StoredAnalyses]} :
           k \in 0..MaxFile}

InitConcurrent ==
    /\ disk \in SharedCaches
    /\ items = <<>>
    /\ op = "shell"
    /\ clock = 1
    /\ todo = <<>>
    /\ pre = <<>>
    /\ mid = <<>>
    /\ listed = <<>>
    /\ current = <<>>
    /\ company = None
    /\ ret = NoRet
    /\ EnrichIdle
    /\ RankIdle
    /\ file = [kind |-> "none", records |-> <<>>]
    /\ load_outcome = "none"
    /\ credential = TRUE
    /\ analyze = FALSE
    /\ wf = "idle"
    /\ scrapes = 0
    /\ mem = [r \in Runs |-> <<>>]
    /\ rpc = [r \in Runs |-> "start"]
    /\ last_saver = "none"

concurrentFrame == <<items, scrapeVars, enrichVars, rankVars, file, load_outcome,
                     credential, analyze, wf, scrapes>>

\* job_list = JobList.load_cache(args.cache_file) of either main
RunLoad(r) ==
    /\ rpc[r] = "start"
    /\ mem' = [mem EXCEPT ![r] = disk]
    /\ rpc' = [rpc EXCEPT ![r] = "loaded"]
    /\ op' = "run_load"
    /\ UNCHANGED <<disk, last_saver, concurrentFrame>>

\* scrape_all.main, lines 105-114, for --companies openai
ScrapeRunWork ==
    /\ rpc["scrape"] = "loaded"
    /\ \E listing \in Listings :
       \E current_jobs \in {ScrapeJobListings("openai", listing, clock + 1)} :
           mem' = [mem EXCEPT !["scrape"] =
                      Reconcile(mem["scrape"], "openai", current_jobs).items]
    /\ rpc' = [rpc EXCEPT !["scrape"] = "worked"]
    /\ op' = "run_scrape"
    /\ UNCHANGED <<disk, last_saver, concurrentFrame>>

\* analyze_matches.main, lines 97-102, for a batch size that takes all the
\* unanalyzed postings in one scoring call: the run saves only when
\* jobs_analyzed > 0, and not at all when analyze_job_list raises
EnrichRunWork ==
    /\ rpc["enrich"] = "loaded"
    /\ LET unanalyzed_jobs == GetUnanalyzedJobs(mem["enrich"])
           n == Len(unanalyzed_jobs)
       IN IF n = 0
          THEN /\ rpc' = [rpc EXCEPT !["enrich"] = "finished"]
               /\ UNCHANGED mem
          ELSE \E resp \in Responses(n) :
               \E a \in {ApplyAnalyses(mem["enrich"], unanalyzed_jobs,
                                       AnalyzeJobBatch(n, resp), 0, 1)} :
                  /\ mem' = [mem EXCEPT !["enrich"] = a.items]
                  /\ rpc' = [rpc EXCEPT !["enrich"] =
                                IF a.raised THEN "crashed" ELSE "worked"]
    /\ op' = "run_enrich"
    /\ UNCHANGED <<disk, last_saver, concurrentFrame>>

\* job_list.save_cache(args.cache_file) at the end of either main
RunSave(r, ok) ==
    /\ rpc[r] = "worked"
    /\ disk' = SaveCache(disk, mem[r], ok)
    /\ last_saver' = IF ok THEN r ELSE last_saver
    /\ rpc' = [rpc EXCEPT ![r] = IF ok THEN "saved" ELSE "save_failed"]
    /\ op' = "run_save"
    /\ UNCHANGED <<mem, concurrentFrame>>

NextConcurrent ==
    \/ \E r \in Runs : RunLoad(r)
    \/ ScrapeRunWork
    \/ EnrichRunWork
    \/ \E r \in Runs : RunSave(r, TRUE)
    \/ \E r \in Runs : RunSave(r, FALSE)

SpecConcurrent == InitConcurrent /\ [][NextConcurrent]_vars

(***************************************************************************)
(* Properties                                                              *)
(***************************************************************************)
\* the last call of scrape_company reconciled a non-empty scrape
Reconciled == op = "scrape" /\ current # <<>>

\* the last record of current_jobs with the given link
LastScraped(link) == current[ExistingIndex(current, link)]

\* C1: when add_jobs merges a scraped posting whose link is stored, the stored
\* posting afterwards carries the scraped title and the other scraped fields
\* (of the last scraped record with that link) together with the match_analysis
\* stored before, also when the scraped record has no description; the posting
\* is reported as updated, not as added.
C1_MergeKeepsAnalysis ==
    Reconciled =>
        \A k \in 1..Len(current) :
            LET l == current[k].link
                e == ExistingIndex(pre, l)
                want == [LastScraped(l) EXCEPT !.match_analysis = pre[e].match_analysis]
            IN e # 0 =>
                /\ \E i \in 1..Len(mid) : mid[i].link = l
                /\ \A i \in 1..Len(mid) : mid[i].link = l => mid[i] = want
                /\ \A i \in 1..Len(items) : items[i].link = l =>
                        /\ items[i].title = want.title
                        /\ items[i].match_analysis = pre[e].match_analysis
                /\ \E u \in 1..Len(ret.updated) :
                        ret.updated[u] =
                            [current[k] EXCEPT !.match_analysis = pre[e].match_analysis]
                /\ \A a \in 1..Len(ret.newly_added) : ret.newly_added[a].link # l

\* a stored, analyzed, described posting was merged with a retitled scrape
C1_Witness ==
    /\ Reconciled
    /\ \E k \in 1..Len(current), i \in 1..Len(pre) :
          /\ pre[i].link = current[k].link
          /\ pre[i].match_analysis = GenuineHigh
          /\ pre[i].description = "d1"
          /\ current[k].description = None
          /\ pre[i].title # current[k].title
          /\ \E j \in 1..Len(items) :
                items[j].link = pre[i].link /\ items[j].title = current[k].title

\* C2 as stated: after scrape_company for source A, whatever the scraped
\* links, every posting stored before under another company is still stored
\* with every field unchanged.
C2_OtherCompaniesUntouched_Orig ==
    op = "scrape" =>
        \A i \in 1..Len(pre) :
            pre[i].company # company => \E j \in 1..Len(items) : items[j] = pre[i]

\* C2 amended: after scrape_company for source A, every posting stored before
\* under another company whose link does not occur in the scrape is still
\* stored with every field unchanged (a scraped posting with the link of
\* another company's posting replaces it, identity being the link alone).
C2_OtherCompaniesUntouched ==
    op = "scrape" =>
        \A i \in 1..Len(pre) :
            (pre[i].company # company /\ pre[i].link \notin LinksOf(current))
                => \E j \in 1..Len(items) : items[j] = pre[i]

\* a posting of the source was removed while another company's posting,
\* not listed and without description, stayed
C2_Witness ==
    /\ Reconciled
    /\ ret.removed # <<>>
    /\ \E i \in 1..Len(pre) :
          /\ pre[i].company # company
          /\ pre[i].link \notin LinksOf(current)
          /\ pre[i].description = None
          /\ \E j \in 1..Len(items) : items[j] = pre[i]

\* C5: after a non-empty scrape S has been reconciled for a source,
\* reconciling the same S for that source once more adds nothing, removes
\* nothing and leaves the set of links of the store unchanged.
C5_SecondReconcileIsNoop ==
    Reconciled =>
        LET again == Reconcile(items, company,
                               ScrapeJobListings(company, listed, clock + 1))
        IN /\ again.ret.newly_added = <<>>
           /\ again.ret.removed = <<>>
           /\ LinksOf(again.items) = LinksOf(items)
           /\ Len(again.ret.updated) = Len(listed)

\* the first reconcile of a two-posting scrape added, updated and removed
C5_Witness ==
    /\ Reconciled
    /\ Len(current) = 2
    /\ Len(ret.newly_added) = 1
    /\ Len(ret.updated) = 1
    /\ Len(ret.removed) = 1
    /\ Reconcile(items, company,
                 ScrapeJobListings(company, listed, clock + 1)).items # <<>>

\* C6: for a reconcile of a non-empty scrape S of source A, the added list is
\* exactly the postings of S whose link was not stored before, the removed
\* list is exactly the stored postings of company A whose link is not in S,
\* these are gone from the store, and afterwards the links of the company-A
\* postings in the store are the links of S.
C6_AddedAndRemovedExact ==
    Reconciled =>
        /\ ret.newly_added =
              SelectSeq2(current,
                         {k \in 1..Len(current) : current[k].link \notin LinksOf(pre)}, 1)
        /\ ret.removed =
              SelectSeq2(pre,
                         {i \in 1..Len(pre) :
                             pre[i].company = company
                             /\ pre[i].link \notin LinksOf(current)}, 1)
        /\ \A r \in 1..Len(ret.removed) : ret.removed[r].link \notin LinksOf(items)
        /\ {items[i].link : i \in {j \in 1..Len(items) : items[j].company = company}}
              = LinksOf(current)

\* one posting was added and one of the source's postings was removed while
\* another company's posting stayed
C6_Witness ==
    /\ Reconciled
    /\ Len(ret.newly_added) = 1
    /\ Len(ret.removed) = 1
    /\ \E i \in 1..Len(items) : items[i].company # company

\* C7: when the scraper returns no posting, scrape_company reconciles
\* nothing: it returns an empty added and an empty removed list and the store
\* is what it was.
C7_EmptyScrapeChangesNothing ==
    (op = "scrape" /\ current = <<>>) => (ret = NoRet /\ items = pre)

\* an empty scrape of a source that has postings in the store
C7_Witness ==
    /\ op = "scrape"
    /\ current = <<>>
    /\ \E i \in 1..Len(items) : items[i].company = company
    /\ \E i \in 1..Len(items) : items[i].company # company

\* C8 as stated: the date of a stored posting never changes while its link
\* stays in the store.
C8_DateSetOnce_Orig ==
    [][\A i \in 1..Len(items) : \A j \in 1..Len(items') :
          items[i].link = items'[j].link => items'[j].date = items[i].date]_vars

\* C8 amended: the date is set when a record is built by a scrape; a merge
\* replaces the stored date by the date of the scraped record (only
\* match_analysis is carried over), and a posting whose link is not in the
\* scrape keeps its date.
C8_DateIsLastScrape ==
    Reconciled =>
        \A j \in 1..Len(items) :
            IF items[j].link \in LinksOf(current)
            THEN items[j].date = clock
            ELSE \E i \in 1..Len(pre) :
                    pre[i].link = items[j].link /\ pre[i].date = items[j].date

\* a stored posting was merged and now carries a later date than before
C8_Witness ==
    /\ Reconciled
    /\ \E i \in 1..Len(pre), j \in 1..Len(items) :
          /\ pre[i].link = items[j].link
          /\ pre[i].date < items[j].date
          /\ items[j].match_analysis = pre[i].match_analysis
          /\ pre[i].match_analysis # NoAnalysis

\* C3 as stated: when an enrichment run is aborted after batch K of N has
\* completed (1 <= K < N), the cache file holds an analysis for every posting
\* of batches 1..K and none for the postings of batches K+1..N.
C3_SavedAfterEachBatch ==
    (pc = "aborted" /\ batch_idx >= 1) =>
        \A j \in 1..Len(unanalyzed) :
            IF j <= batch_idx
            THEN disk[unanalyzed[j]].match_analysis # NoAnalysis
            ELSE disk[unanalyzed[j]].match_analysis = NoAnalysis

\* C4 as stated: whatever the scoring service answers per batch, a confirmed
\* enrichment run attempts every batch and ends normally.
C4_EveryBatchAttempted ==
    /\ pc # "crashed"
    /\ (pc = "done" /\ op = "batch") =>
            Len(calls) = TotalBatches(Len(unanalyzed), batch_size)

\* C9 as stated: the postings an enrichment run selects are exactly the stored
\* postings whose description is not None and whose match_analysis is None,
\* in store order.
C9_SelectsNonNullDescription_Orig ==
    op = "start" =>
        /\ \A i \in 1..Len(items) :
              (\E k \in 1..Len(eligible) : eligible[k] = i)
                <=> (items[i].description # None /\ items[i].match_analysis = NoAnalysis)
        /\ \A k \in 1..(Len(eligible) - 1) : eligible[k] < eligible[k + 1]

\* C9 amended: the postings an enrichment run selects are exactly the stored
\* postings whose description is neither None nor the empty string and whose
\* match_analysis is None, in store order; a posting with a genuine or a
\* fallback analysis is not selected.
C9_SelectsDescribedUnanalyzed ==
    op = "start" =>
        /\ \A i \in 1..Len(items) :
              (\E k \in 1..Len(eligible) : eligible[k] = i)
                <=> (/\ items[i].description \notin {None, ""}
                     /\ items[i].match_analysis \notin {GenuineHigh, FallbackAnalysis})
        /\ \A k \in 1..(Len(eligible) - 1) : eligible[k] < eligible[k + 1]

\* a run selected the third posting of a store whose first posting has an
\* empty description and whose second carries a fallback analysis
C9_Witness ==
    /\ op = "start"
    /\ Len(items) = 3
    /\ items[1].description = "" /\ items[1].match_analysis = NoAnalysis
    /\ items[2].description = "d1" /\ items[2].match_analysis = FallbackAnalysis
    /\ eligible = <<3>>

\* C10: whatever the scoring service answers to a batch of b postings,
\* analyze_job_batch returns exactly b results; an array of r < b elements
\* gives those r elements in order followed by b - r fallback results, an
\* array of r > b elements gives its first b elements.
C10_OneResultPerPosting ==
    op = "batch" =>
        LET b == Len(calls[Len(calls)])
            r == Len(response.analyses)
        IN /\ Len(results) = b
           /\ (response.kind = "array" /\ r < b) =>
                 /\ \A i \in 1..r : results[i] = response.analyses[i]
                 /\ \A i \in (r + 1)..b : results[i] = FallbackAnalysis
           /\ (response.kind = "array" /\ r > b) =>
                 \A i \in 1..b : results[i] = response.analyses[i]

\* a batch of two postings was answered with one element
C10_Witness ==
    /\ op = "batch"
    /\ Len(calls[Len(calls)]) = 2
    /\ response.kind = "array"
    /\ response.analyses = <<GenuineHigh>>
    /\ results = <<GenuineHigh, FallbackAnalysis>>
    /\ items[calls[Len(calls)][2]].match_analysis = FallbackAnalysis

\* C11: when the scoring call of a batch raises, or its response holds no
\* array that parses, every posting of that batch gets the fallback analysis
\* (its other fields unchanged) and no other posting of the store changes.
C11_FallbackForFailedBatch ==
    [][(op' = "batch" /\ response'.kind # "array") =>
          LET batch == calls'[Len(calls')]
          IN /\ Len(items') = Len(items)
             /\ results' = [k \in 1..Len(batch) |-> FallbackAnalysis]
             /\ \A i \in 1..Len(items) :
                   IF \E k \in 1..Len(batch) : batch[k] = i
                   THEN items'[i] = [items[i] EXCEPT !.match_analysis = FallbackAnalysis]
                   ELSE items'[i] = items[i]]_vars

\* the second batch of a run failed after the first was scored: the first
\* keeps its genuine analysis, the second holds fallbacks
C11_Witness ==
    /\ op = "batch"
    /\ response.kind \in {"raise", "no_array", "bad_json"}
    /\ Len(calls) = 2
    /\ items[calls[1][1]].match_analysis = GenuineHigh
    /\ \A k \in 1..Len(calls[2]) : items[calls[2][k]].match_analysis = FallbackAnalysis

\* C12 as stated: every fallback result analyze_job_batch returns (for a
\* failed call, or as padding) has its five sub-scores 0 and carries the key
\* failed, by which a stored analysis is told from a genuine one.
C12_FallbackCarriesFailedMarker ==
    op = "batch" =>
        \A i \in 1..Len(results) :
            (response.kind # "array" \/ i > Len(response.analyses)) =>
                /\ SubScores(results[i]) = <<0, 0, 0, 0, 0>>
                /\ "failed" \in KeysOf(results[i])

\* C13: the k-th scoring call of a run covers the selected postings at
\* positions (k-1)*b+1 .. min(k*b, n) in store order; a run that ends
\* normally has issued ceil(n / b) calls, every selected posting is in
\* exactly one of them and only the last may hold fewer than b postings.
C13_BatchesPartitionSelection ==
    LET n == Len(unanalyzed)
        b == batch_size
    IN /\ \A k \in 1..Len(calls) :
             calls[k] = [j \in 1..(Min(k * b, n) - (k - 1) * b) |->
                            unanalyzed[(k - 1) * b + j]]
       /\ pc = "done" =>
             /\ Len(calls) * b >= n
             /\ Len(calls) = 0 \/ (Len(calls) - 1) * b < n
             /\ \A j \in 1..n :
                   Cardinality({c \in (1..Len(calls)) \X (1..b) :
                                   /\ c[2] <= Len(calls[c[1]])
                                   /\ calls[c[1]][c[2]] = unanalyzed[j]}) = 1
             /\ \A k \in 1..(Len(calls) - 1) : Len(calls[k]) = b

\* three selected postings went out in a call of two and a call of one
C13_Witness ==
    /\ pc = "done"
    /\ Len(unanalyzed) = 3
    /\ batch_size = 2
    /\ Len(calls) = 2
    /\ Len(calls[1]) = 2
    /\ calls[2] = <<unanalyzed[3]>>

\* C14 as stated: with max_jobs = m (any m >= 0) the run works on the first
\* min(m, n) of the n eligible postings, without max_jobs on all of them.
C14_MaxPostingsIsPrefix ==
    pc \notin {"idle", "start"} =>
        unanalyzed = IF max_jobs = <<>> THEN eligible
                     ELSE SubSeq(eligible, 1, Min(max_jobs[1], Len(eligible)))

\* C15: in the batch loop a sleep comes only right after the results of a
\* batch were applied, every batch but the last is followed by one before the
\* next scoring call, and a run of B batches that ends normally has slept
\* B - 1 times (not at all for B <= 1), never after its last batch.
C15_SleepsBetweenBatches ==
    /\ \A i \in 1..Len(log) :
          /\ log[i] = "sleep" =>
                /\ i > 1 /\ log[i - 1] = "apply"
                /\ i < Len(log) => log[i + 1] = "call"
          /\ (log[i] = "apply" /\ i < Len(log)) => log[i + 1] = "sleep"
          /\ log[i] = "call" => (i < Len(log) /\ log[i + 1] \in {"apply", "raise"})
    /\ sleeps = Cardinality({i \in 1..Len(log) : log[i] = "sleep"})
    /\ Len(calls) = Cardinality({i \in 1..Len(log) : log[i] = "call"})
    /\ pc = "done" =>
          /\ sleeps = IF Len(calls) = 0 THEN 0 ELSE Len(calls) - 1
          /\ log # <<>> => log[Len(log)] = "apply"

\* a run of three batches ended after two sleeps
C15_Witness ==
    /\ pc = "done"
    /\ Len(calls) = 3
    /\ sleeps = 2
    /\ log = <<"call", "apply", "sleep", "call", "apply", "sleep", "call", "apply">>

\* C17: when a confirmed run has gone through all its batches, every selected
\* posting has an analysis (genuine or fallback) and the count the run
\* returns is the number of selected postings.
C17_CompletedRunEnrichesAll ==
    pc = "done" =>
        /\ jobs_analyzed = Len(unanalyzed)
        /\ \A j \in 1..Len(unanalyzed) :
              items[unanalyzed[j]].match_analysis # NoAnalysis

\* a run over three postings ended with a genuine and a fallback analysis
C17_Witness ==
    /\ pc = "done"
    /\ op = "batch"
    /\ Len(unanalyzed) = 3
    /\ jobs_analyzed = 3
    /\ \E j \in 1..3 : items[unanalyzed[j]].match_analysis = FallbackAnalysis
    /\ \E j \in 1..3 : items[unanalyzed[j]].match_analysis = GenuineHigh

\* the positions of the analyzed postings
Analyzed == {i \in 1..Len(items) : items[i].match_analysis # NoAnalysis}

\* the positions a view holds
InView(v) == {v[k] : k \in 1..Len(v)}

\* the positions that occur in all four views, and in any of them
InEveryView ==
    InView(recommendations.best_overall_fit)
    \cap InView(recommendations.best_skills_match)
    \cap InView(recommendations.best_interest_alignment)
    \cap InView(recommendations.best_balanced_match)
InSomeView ==
    InView(recommendations.best_overall_fit)
    \cup InView(recommendations.best_skills_match)
    \cup InView(recommendations.best_interest_alignment)
    \cup InView(recommendations.best_balanced_match)

\* C16 as stated: when recommendations are made with top_n at least the
\* number of analyzed postings, every analyzed posting, a posting with a
\* fallback analysis included, occurs in each of the four views.
C16_FailedShownInViews ==
    (op = "recommend" /\ top_n >= Cardinality(Analyzed)) =>
        Analyzed \subseteq InEveryView

\* C18 as stated: in the views of JobMatcher.generate_recommendations a
\* posting with a management title occurs only if its role_compatibility
\* exceeds 60.
C18_ManagerNeedsRoleAbove60_Orig ==
    (op = "recommend" /\ matcher = "core") =>
        \A i \in Analyzed :
            (items[i].title = "Engineering Manager" /\ i \in InSomeView) =>
                /\ items[i].match_analysis.kind = "detailed"
                /\ items[i].match_analysis.role_compatibility > 60

\* C18 amended: in the views of JobMatcher.generate_recommendations a posting
\* with a management title is in no view when its analysis has a
\* role_compatibility below 60, whatever its overall_fit; with top_n at least
\* the number of analyzed postings it is in every view when its overall_fit
\* is at least 30 and its role_compatibility is 60 or more, or its analysis
\* is of the older format and has no role_compatibility.
C18_ManagerNeedsRole60 ==
    (op = "recommend" /\ matcher = "core") =>
        \A i \in Analyzed :
            LET a == items[i].match_analysis
            IN items[i].title = "Engineering Manager" =>
                  /\ (a.kind = "detailed" /\ a.role_compatibility < 60)
                        => i \notin InSomeView
                  /\ (/\ top_n >= Cardinality(Analyzed)
                      /\ a.overall_fit >= 30
                      /\ a.kind = "legacy" \/ a.role_compatibility >= 60)
                        => i \in InEveryView

\* three manager postings were ranked: the one with role_compatibility 60 is
\* shown, those with 40 and with 30 (overall_fit 90) are not
C18_Witness ==
    /\ op = "recommend"
    /\ matcher = "core"
    /\ Len(items) = 3
    /\ \A i \in 1..3 : items[i].title = "Engineering Manager"
    /\ items[1].match_analysis = LowRole
    /\ items[2].match_analysis = GenuineMid
    /\ items[3].match_analysis = BoundaryRole
    /\ InSomeView = {3}

\* C19 as stated: the balanced_score a ranking writes (here in tenths) is
\* 0.3 skills_match + 0.3 experience_level_match + 0.4 role_compatibility for
\* an analysis that has role_compatibility and (skills_match +
\* interest_alignment) / 2 for one of the older format.
C19_BalancedScoreFormula ==
    op = "recommend" =>
        \A i \in 1..Len(items) :
            LET a == items[i].match_analysis
            IN balanced_score[i] # -1 =>
                  balanced_score[i] =
                      IF a.kind = "detailed"
                      THEN 3 * a.skills_match + 3 * a.experience_level_match
                           + 4 * a.role_compatibility
                      ELSE 5 * (a.skills_match + a.interest_alignment)

\* C20: each of the four views holds min(top_n, number of postings that pass
\* the filter of the matcher) distinct postings that pass it, in
\* non-increasing order of the key of the view, and no posting left out has
\* a key greater than one in the view.
C20_ViewsAreTopN ==
    op = "recommend" =>
        LET pass == {i \in Analyzed : matcher = "core" => PassesFilter(items[i])}
            Good(v, key) ==
                /\ Len(v) = Min(top_n, Cardinality(pass))
                /\ InView(v) \subseteq pass
                /\ Cardinality(InView(v)) = Len(v)
                /\ \A k \in 1..(Len(v) - 1) : key[v[k]] >= key[v[k + 1]]
                /\ \A i \in pass \ InView(v) : \A k \in 1..Len(v) : key[i] <= key[v[k]]
        IN /\ Good(recommendations.best_overall_fit,
                   [i \in 1..Len(items) |-> items[i].match_analysis.overall_fit])
           /\ Good(recommendations.best_skills_match,
                   [i \in 1..Len(items) |-> items[i].match_analysis.skills_match])
           /\ Good(recommendations.best_interest_alignment,
                   [i \in 1..Len(items) |-> items[i].match_analysis.interest_alignment])
           /\ Good(recommendations.best_balanced_match, balanced_score)

\* three postings passed the filter and each view holds two of them, not the
\* same two in every view
C20_Witness ==
    /\ op = "recommend"
    /\ matcher = "core"
    /\ top_n = 2
    /\ Cardinality({i \in Analyzed : PassesFilter(items[i])}) = 3
    /\ Len(recommendations.best_overall_fit) = 2
    /\ InView(recommendations.best_overall_fit) # InView(recommendations.best_balanced_match)
    /\ recommendations.best_skills_match[1] # recommendations.best_interest_alignment[1]

\* C21: in each of the four views two postings of equal sort key stand in
\* the order of their store positions, and a posting that the cut at top_n
\* left out stands in the store behind every shown posting of the same key.
C21_TiesKeepStoreOrder ==
    op = "recommend" =>
        LET pass == {i \in Analyzed : matcher = "core" => PassesFilter(items[i])}
            Stable(v, key) ==
                /\ \A k \in 1..Len(v) : \A l \in (k + 1)..Len(v) :
                       key[v[k]] = key[v[l]] => v[k] < v[l]
                /\ \A i \in pass \ InView(v) : \A k \in 1..Len(v) :
                       key[i] = key[v[k]] => v[k] < i
        IN /\ Stable(recommendations.best_overall_fit,
                     [i \in 1..Len(items) |-> items[i].match_analysis.overall_fit])
           /\ Stable(recommendations.best_skills_match,
                     [i \in 1..Len(items) |-> items[i].match_analysis.skills_match])
           /\ Stable(recommendations.best_interest_alignment,
                     [i \in 1..Len(items) |-> items[i].match_analysis.interest_alignment])
           /\ Stable(recommendations.best_balanced_match, balanced_score)

\* two postings of equal overall_fit are both shown, and a third of the same
\* overall_fit is cut off
C21_Witness ==
    /\ op = "recommend"
    /\ top_n = 2
    /\ Len(recommendations.best_overall_fit) = 2
    /\ \E i \in Analyzed \ InView(recommendations.best_overall_fit) :
          \A k \in 1..2 :
              items[recommendations.best_overall_fit[k]].match_analysis.overall_fit
                  = items[i].match_analysis.overall_fit
    /\ recommendations.best_balanced_match # recommendations.best_overall_fit

\* the positions of the scraped postings whose link was stored before
StoredBefore == {k \in 1..Len(current) : current[k].link \in LinksOf(pre)}

\* C26: add_jobs removes nothing: every link stored before it is stored
\* after it, each scraped posting is in exactly one of the returned lists
\* (updated when its link was stored, newly added otherwise, both in scrape
\* order), and the store has grown by the number of newly added postings.
C26_AddJobsOnlyAdds ==
    Reconciled =>
        /\ LinksOf(pre) \subseteq LinksOf(mid)
        /\ ret.newly_added = SelectSeq2(current, (1..Len(current)) \ StoredBefore, 1)
        /\ [k \in 1..Len(ret.updated) |-> ret.updated[k].link]
              = [k \in 1..Cardinality(StoredBefore) |->
                    SelectSeq2(current, StoredBefore, 1)[k].link]
        /\ Len(ret.newly_added) + Len(ret.updated) = Len(current)
        /\ Len(mid) = Len(pre) + Len(ret.newly_added)

\* a scrape of one stored and one new posting against a store of two, of
\* which the scrape lists only one
C26_Witness ==
    /\ Reconciled
    /\ Len(pre) = 2
    /\ Len(mid) = 3
    /\ Len(ret.updated) = 1
    /\ Len(ret.newly_added) = 1
    /\ Cardinality(LinksOf(pre) \ LinksOf(current)) = 1

\* C27 as stated: the postings of the store have pairwise distinct links
\* after every reconciliation of a store that had pairwise distinct links.
C27_LinksStayDistinct == DistinctLinks(items)

\* C29: after add_jobs every position the store had holds the posting of
\* the same link (the merged one where the scrape listed it, the stored one
\* unchanged otherwise) and the new postings follow in scrape order; the
\* postings left by remove_jobs_not_in_list stand in the order they had.
C29_OrderPreserved ==
    Reconciled =>
        /\ Len(mid) >= Len(pre)
        /\ \A i \in 1..Len(pre) :
              /\ mid[i].link = pre[i].link
              /\ pre[i].link \notin LinksOf(current) => mid[i] = pre[i]
        /\ SubSeq(mid, Len(pre) + 1, Len(mid)) = ret.newly_added
        /\ ret.newly_added = SelectSeq2(current, (1..Len(current)) \ StoredBefore, 1)
        /\ LET kept == {i \in 1..Len(mid) : mid[i].link \in LinksOf(items)}
           IN [i \in 1..Len(items) |-> items[i].link]
                 = [i \in 1..Cardinality(kept) |-> SelectSeq2(mid, kept, 1)[i].link]

\* the scrape listed a new posting and then the second stored one: the first
\* stored posting was removed, the second updated where it stood, the new
\* one appended behind it
C29_Witness ==
    /\ Reconciled
    /\ Len(pre) = 2
    /\ Len(current) = 2
    /\ current[2].link = pre[2].link
    /\ mid[2] # pre[2]
    /\ Len(ret.removed) = 1
    /\ ret.removed[1].link = pre[1].link
    /\ ret.newly_added = <<current[1]>>
    /\ Len(items) = 2
    /\ items[1].link = pre[2].link
    /\ items[2].link = current[1].link

\* C28: a step of an enrichment run leaves the store as long as it was and
\* in the same order, changes no field but match_analysis, changes only
\* postings the run selected, leaves every posting that has an analysis
\* (genuine or fallback) exactly as it is, and submits to the scoring
\* service only postings that have no analysis.
C28_EnrichmentTouchesOnlySelected ==
    [][/\ Len(items') = Len(items)
       /\ \A i \in 1..Len(items) :
             /\ items'[i] = [items[i] EXCEPT !.match_analysis = items'[i].match_analysis]
             /\ items[i].match_analysis # NoAnalysis => items'[i] = items[i]
             /\ items'[i] # items[i] =>
                   \E j \in 1..Len(unanalyzed) : unanalyzed[j] = i
       /\ Len(calls') > Len(calls) =>
             \A k \in 1..Len(calls'[Len(calls')]) :
                 items[calls'[Len(calls')][k]].match_analysis = NoAnalysis]_vars

\* a run scored a posting while a described posting that an earlier run left
\* with a fallback analysis was in none of its calls and still holds it
C28_Witness ==
    /\ pc = "done"
    /\ op = "batch"
    /\ \E i \in 1..Len(items) :
          /\ items[i].match_analysis = FallbackAnalysis
          /\ Truthy(items[i].description)
          /\ disk[i].match_analysis = FallbackAnalysis
          /\ \A c \in 1..Len(calls) : \A k \in 1..Len(calls[c]) : calls[c][k] # i
    /\ \E c \in 1..Len(calls) :
          items[calls[c][1]].match_analysis = GenuineHigh

\* C23: load_cache returns a store and lets no error out, whatever the cache
\* file is: the empty store when there is no file, when the file does not
\* parse to a list of objects or when a record lacks its title or link (or
\* holds a null where a string is read); otherwise one posting per record,
\* with missing optional keys filled by their defaults.
C23_LoadNeverRaises ==
    op = "loaded" =>
        /\ load_outcome \in {"missing", "recovered", "loaded"}
        /\ file.kind # "list" => items = <<>>
        /\ load_outcome = "recovered" => items = <<>>
        /\ (file.kind = "list"
              /\ \A i \in 1..Len(file.records) :
                    /\ file.records[i].title # Absent
                    /\ file.records[i].link \notin {Absent, None}
                    /\ file.records[i].company # None) =>
              /\ load_outcome = "loaded"
              /\ Len(items) = Len(file.records)
              /\ \A i \in 1..Len(items) :
                    /\ items[i].title = file.records[i].title
                    /\ items[i].link = file.records[i].link
                    /\ items[i].date = IF file.records[i].date = 0 THEN clock
                                       ELSE file.records[i].date
                    /\ items[i].description =
                          IF file.records[i].description = Absent THEN None
                          ELSE file.records[i].description
                    /\ items[i].match_analysis = file.records[i].match_analysis

\* a file whose first record is complete and whose second has no title was
\* recovered as the empty store
C23_Witness ==
    /\ op = "loaded"
    /\ load_outcome = "recovered"
    /\ Len(file.records) = 2
    /\ file.records[1].match_analysis = GenuineHigh
    /\ file.records[2].title = Absent
    /\ items = <<>>

\* C24: a posting loaded from a record without a company key has the company
\* 'openai' when its link contains 'openai.com', else 'anthropic' when it
\* contains 'anthropic.com', else 'unknown'; a posting loaded from a record
\* with a company key has that company in lower case.
C24_CompanyInferredFromLink ==
    (op = "loaded" /\ load_outcome = "loaded") =>
        \A i \in 1..Len(items) :
            LET raw == file.records[i]
            IN IF raw.company = Absent
               THEN items[i].company =
                       IF raw.link \in OpenAILinks THEN "openai"
                       ELSE IF raw.link \in AnthropicLinks THEN "anthropic"
                       ELSE "unknown"
               ELSE items[i].company = Lower(raw.company)

\* a record without company whose link holds both domains became an openai
\* posting, next to a record that kept its own company in lower case
C24_Witness ==
    /\ op = "loaded"
    /\ load_outcome = "loaded"
    /\ Len(items) = 2
    /\ file.records[1].company = Absent
    /\ file.records[1].link \in OpenAILinks \cap AnthropicLinks
    /\ items[1].company = "openai"
    /\ file.records[2].company = "OpenAI"
    /\ items[2].company = "openai"

\* C22 as stated: when no credential is available, a run that was asked to
\* enrich stops at startup: no scrape is performed, no scoring call is made
\* and the store is neither loaded and changed nor saved.
C22_StopsBeforeAnyWork_Orig ==
    (~credential /\ analyze /\ wf # "start") =>
        /\ scrapes = 0
        /\ calls = <<>>
        /\ disk = pre
        /\ items = <<>>

\* C22: when no credential is available, no scoring call is made and no
\* analysis is written; analyze_matches.py and job_analyzer_integrated.py
\* stop at the construction of the matcher, before the store is loaded, with
\* no scrape and the cache file as it was; the complete workflow has made
\* its one scrape, which saved the scraped postings when there were any, and
\* then skips the analysis.
C22_NoEnrichmentWithoutCredential ==
    (~credential /\ wf # "start") =>
        /\ calls = <<>>
        /\ jobs_analyzed = 0
        /\ \A i \in 1..Len(disk) :
              disk[i].match_analysis # NoAnalysis => disk = pre
        /\ wf \in {"matcher_error", "analyzer_error", "scraped",
                    "workflow_done", "workflow_crashed"}
        /\ wf \in {"matcher_error", "analyzer_error"} =>
              (scrapes = 0 /\ disk = pre /\ items = <<>>)
        /\ wf \in {"scraped", "workflow_done", "workflow_crashed"} =>
              /\ scrapes = 1
              /\ listed = <<>> => disk = pre
              /\ listed # <<>> =>
                    /\ Len(disk) = Len(listed)
                    /\ \A i \in 1..Len(disk) :
                          /\ disk[i].link = listed[i].link
                          /\ disk[i].match_analysis = NoAnalysis
        /\ wf \in {"workflow_done", "workflow_crashed"} => op = "workflow_skip"

\* the workflow was started with --analyze and no key: it scraped, saved two
\* postings over a cache of one and then skipped the analysis
C22_Witness ==
    /\ ~credential
    /\ analyze
    /\ op = "workflow_skip"
    /\ scrapes = 1
    /\ Len(pre) = 1
    /\ Len(disk) = 2
    /\ disk # pre
    /\ calls = <<>>

\* C25 as stated: after the scrape step of the complete workflow has saved
\* the cache, every posting that had a match analysis in the cache before
\* and is listed by the scrape has that match analysis in the saved cache.
C25_ScrapeStepKeepsAnalysis ==
    (op = "workflow_scrape" /\ listed # <<>>) =>
        \A i \in 1..Len(pre) :
            (pre[i].match_analysis # NoAnalysis /\ pre[i].link \in LinksOf(current)) =>
                \E j \in 1..Len(disk) :
                    /\ disk[j].link = pre[i].link
                    /\ disk[j].match_analysis = pre[i].match_analysis

\* C30: once a run has saved, the cache file holds exactly the in-memory
\* store of the run that saved last, whatever the other run saved before.
C30_LastWriterWins ==
    last_saver # "none" =>
        (rpc[last_saver] = "saved" /\ disk = mem[last_saver])

\* both runs loaded the same file; the enrichment run saved an analysis,
\* then the scrape run saved its store: the file has the posting without
\* the analysis the enrichment run had saved
C30_Witness ==
    /\ rpc = [r \in Runs |-> "saved"]
    /\ last_saver = "scrape"
    /\ \E i \in 1..Len(mem["enrich"]) :
          /\ mem["enrich"][i].match_analysis = GenuineHigh
          /\ \E j \in 1..Len(disk) :
                /\ disk[j].link = mem["enrich"][i].link
                /\ disk[j].match_analysis = NoAnalysis

====
